---- MODULE Spec2Model ----
(***************************************************************************)
(* A model of the AirCut backend (src/backend/main.py): the gesture        *)
(* recognizer (SimpleGestureRecognizer), the frame detection pipeline      *)
(* (HighPerformanceCameraManager) and the two WebSocket endpoints (/ws and *)
(* /ws/frames) that run as coroutines of one asyncio event loop.           *)
(*                                                                         *)
(* Numbers.  Python floats are modelled in fixed point: the integer v      *)
(* stands for v / FP.  Division is floor division and the square root is   *)
(* the integer square root, so a value may differ from the float by one    *)
(* unit of the last place (1/FP); comparisons the code makes between       *)
(* values that are exactly equal, and the clamp max(0.0, ...), behave as   *)
(* in the code.                                                            *)
(***************************************************************************)
EXTENDS Integers, Sequences, FiniteSets, TLC

(***************************************************************************)
(* Fixed-point scale and arithmetic helpers.                               *)
(***************************************************************************)
FP == 10 * 10 * 10

Min(a, b) == IF a <= b THEN a ELSE b

Max(a, b) == IF a >= b THEN a ELSE b

RECURSIVE SqrtSearch(_, _, _)
SqrtSearch(n, lo, hi) ==
    IF lo >= hi THEN lo
    ELSE LET mid == (lo + hi + 1) \div 2
         IN  IF mid * mid <= n THEN SqrtSearch(n, mid, hi)
             ELSE SqrtSearch(n, lo, mid - 1)

\* x ** 0.5 on a non-negative fixed-point square (already in FP*FP units)
ISqrt(n) == SqrtSearch(n, 0, Min(n, 46340))

\* ((dx * dx + dy * dy) ** 0.5) between two points
Dist(p, q) ==
    LET dx == p[1] - q[1]
        dy == p[2] - q[2]
    IN  ISqrt(dx * dx + dy * dy)

RECURSIVE SeqMin(_, _)
SeqMin(s, k) ==
    IF Len(s) = 1 THEN s[1][k]
    ELSE Min(s[1][k], SeqMin(Tail(s), k))

RECURSIVE SeqMax(_, _)
SeqMax(s, k) ==
    IF Len(s) = 1 THEN s[1][k]
    ELSE Max(s[1][k], SeqMax(Tail(s), k))

(***************************************************************************)
(* SimpleGestureRecognizer                                                 *)
(***************************************************************************)

\* Faulty variant of NormalizeTrajectory: one divisor for both axes (uniform
\* scaling by the larger extent).
NormalizeUniform(trajectory) ==
    IF Len(trajectory) < 2 THEN trajectory
    ELSE LET min_x == SeqMin(trajectory, 1)
             max_x == SeqMax(trajectory, 1)
             min_y == SeqMin(trajectory, 2)
             max_y == SeqMax(trajectory, 2)
             extent == Max(max_x - min_x, max_y - min_y)
             width == IF extent > 0 THEN extent ELSE FP
         IN  [i \in 1..Len(trajectory) |->
                 << ((trajectory[i][1] - min_x) * FP) \div width,
                    ((trajectory[i][2] - min_y) * FP) \div width >>]

\* SimpleGestureRecognizer.normalize_trajectory
NormalizeTrajectory(trajectory) ==
    IF Len(trajectory) < 2 THEN trajectory
    ELSE LET min_x == SeqMin(trajectory, 1)
             max_x == SeqMax(trajectory, 1)
             min_y == SeqMin(trajectory, 2)
             max_y == SeqMax(trajectory, 2)
             width == IF max_x > min_x THEN max_x - min_x ELSE FP
             height == IF max_y > min_y THEN max_y - min_y ELSE FP
         IN  [i \in 1..Len(trajectory) |->
                 << ((trajectory[i][1] - min_x) * FP) \div width,
                    ((trajectory[i][2] - min_y) * FP) \div height >>]

\* total path length loop of resample_trajectory
RECURSIVE PathLength(_, _)
PathLength(trajectory, i) ==
    IF i > Len(trajectory) THEN 0
    ELSE Dist(trajectory[i], trajectory[i - 1]) + PathLength(trajectory, i + 1)

\* Faulty variant of ResampleWalk: no interpolation, the start of the
\* containing segment is taken.
RECURSIVE ResampleWalkSegmentStart(_, _, _, _)
ResampleWalkSegmentStart(trajectory, target_total_distance, current_distance, current_point_idx) ==
    IF ~(current_distance < target_total_distance
         /\ current_point_idx < Len(trajectory))
    THEN [dist |-> current_distance, idx |-> current_point_idx, out |-> << >>]
    ELSE LET a == trajectory[current_point_idx]
             b == trajectory[current_point_idx + 1]
             dx == b[1] - a[1]
             dy == b[2] - a[2]
             segment_length == ISqrt(dx * dx + dy * dy)
         IN  IF current_distance + segment_length >= target_total_distance
             THEN [dist |-> current_distance, idx |-> current_point_idx, out |-> << a >>]
             ELSE ResampleWalkSegmentStart(trajectory, target_total_distance,
                                           current_distance + segment_length,
                                           current_point_idx + 1)

\* The inner while loop of resample_trajectory for one target distance:
\* returns the cursor and the point appended (if any).
RECURSIVE ResampleWalk(_, _, _, _)
ResampleWalk(trajectory, target_total_distance, current_distance, current_point_idx) ==
    IF ~(current_distance < target_total_distance
         /\ current_point_idx < Len(trajectory))
    THEN [dist |-> current_distance, idx |-> current_point_idx, out |-> << >>]
    ELSE LET a == trajectory[current_point_idx]
             b == trajectory[current_point_idx + 1]
             dx == b[1] - a[1]
             dy == b[2] - a[2]
             segment_length == ISqrt(dx * dx + dy * dy)
         IN  IF current_distance + segment_length >= target_total_distance
             THEN LET remaining_distance == target_total_distance - current_distance
                  IN  [dist |-> current_distance, idx |-> current_point_idx,
                       out |-> IF segment_length > 0
                               THEN << << a[1] + (dx * remaining_distance) \div segment_length,
                                          a[2] + (dy * remaining_distance) \div segment_length >> >>
                               ELSE << a >>]
             ELSE ResampleWalk(trajectory, target_total_distance,
                               current_distance + segment_length, current_point_idx + 1)

\* The for loop of resample_trajectory over the interior points i = 1 .. target_count - 2
RECURSIVE ResampleLoop(_, _, _, _, _, _, _)
ResampleLoop(trajectory, total_length, target_count, i, current_distance, current_point_idx, resampled) ==
    IF i > target_count - 2 THEN resampled
    ELSE LET w == ResampleWalk(trajectory, (i * total_length) \div (target_count - 1),
                               current_distance, current_point_idx)
         IN  ResampleLoop(trajectory, total_length, target_count, i + 1,
                          w.dist, w.idx, resampled \o w.out)

\* SimpleGestureRecognizer.resample_trajectory
ResampleTrajectory(trajectory, target_count) ==
    IF Len(trajectory) <= 1 \/ target_count <= 1 THEN trajectory
    ELSE IF Len(trajectory) = target_count THEN trajectory
    ELSE LET total_length == PathLength(trajectory, 2)
         IN  IF total_length = 0 THEN trajectory
             ELSE Append(ResampleLoop(trajectory, total_length, target_count, 1, 0, 1,
                                      << trajectory[1] >>),
                         trajectory[Len(trajectory)])

\* The value standing for an exception raised out of calculate_similarity
\* (IndexError when the second resampled list is shorter than the first).
SimRaised == 0 - 1

RECURSIVE SumDistances(_, _, _)
SumDistances(r1, r2, i) ==
    IF i > Len(r1) THEN 0
    ELSE Dist(r1[i], r2[i]) + SumDistances(r1, r2, i + 1)

\* SimpleGestureRecognizer.calculate_similarity; max_distance = 1.414
CalculateSimilarity(trajectory1, trajectory2) ==
    IF trajectory1 = << >> \/ trajectory2 = << >> THEN 0
    ELSE LET target_points == Min(50, Max(Len(trajectory1), Len(trajectory2)))
             resampled1 == ResampleTrajectory(trajectory1, target_points)
             resampled2 == ResampleTrajectory(trajectory2, target_points)
         IN  IF Len(resampled2) < Len(resampled1) THEN SimRaised
             ELSE LET total_distance == SumDistances(resampled1, resampled2, 1)
                  IN  Max(0, FP - (total_distance * 1000) \div (1414 * Len(resampled1)))

\* The absent value (Python None) and a raised exception, as results.
None == [kind |-> "none"]

Raised == [kind |-> "raise"]

\* Faulty variant of AddTemplateTo: the trajectory is stored as given, not
\* normalized.
AddTemplateRaw(tpls, template_id, name, trajectory) ==
    LET entry == [id |-> template_id, name |-> name,
                  trajectory |-> trajectory,
                  point_count |-> Len(trajectory)]
    IN  IF \E i \in 1..Len(tpls) : tpls[i].id = template_id
        THEN [i \in 1..Len(tpls) |-> IF tpls[i].id = template_id THEN entry ELSE tpls[i]]
        ELSE Append(tpls, entry)

\* SimpleGestureRecognizer.add_template on a template dictionary, kept as the
\* sequence of its values in insertion order (a Python dict keeps insertion
\* order, and assigning to an existing key keeps the key's position).
AddTemplateTo(tpls, template_id, name, trajectory) ==
    LET normalized_trajectory == NormalizeTrajectory(trajectory)
        entry == [id |-> template_id, name |-> name,
                  trajectory |-> normalized_trajectory,
                  point_count |-> Len(normalized_trajectory)]
    IN  IF \E i \in 1..Len(tpls) : tpls[i].id = template_id
        THEN [i \in 1..Len(tpls) |-> IF tpls[i].id = template_id THEN entry ELSE tpls[i]]
        ELSE Append(tpls, entry)

\* The loop over self.templates.items() in recognize_gesture
RECURSIVE RecognizeLoop(_, _, _, _, _, _)
RecognizeLoop(tpls, normalized_input, confidence_threshold, i, best_match, best_similarity) ==
    IF i > Len(tpls) THEN best_match
    ELSE LET similarity == CalculateSimilarity(normalized_input, tpls[i].trajectory)
         IN  IF similarity = SimRaised THEN Raised
             ELSE IF similarity > best_similarity /\ similarity >= confidence_threshold
             THEN RecognizeLoop(tpls, normalized_input, confidence_threshold, i + 1,
                                [kind |-> "match", template_id |-> tpls[i].id,
                                 name |-> tpls[i].name, similarity |-> similarity,
                                 confidence |-> similarity],
                                similarity)
             ELSE RecognizeLoop(tpls, normalized_input, confidence_threshold, i + 1,
                                best_match, best_similarity)

\* SimpleGestureRecognizer.recognize_gesture
RecognizeGesture(tpls, trajectory, confidence_threshold) ==
    IF Len(trajectory) < 2 THEN None
    ELSE IF tpls = << >> THEN None
    ELSE LET normalized_input == NormalizeTrajectory(trajectory)
         IN  IF Len(normalized_input) < 2 THEN None
             ELSE RecognizeLoop(tpls, normalized_input, confidence_threshold, 1, None, 0)

(***************************************************************************)
(* State.                                                                  *)
(*   camera_manager (HighPerformanceCameraManager): model_loaded,          *)
(*     tracking_enabled, frame_count, detection_count, fps_start_time,     *)
(*     detection_times, current_detections, frame_lock                     *)
(*   module globals: current_hand_detection_confidence,                    *)
(*     current_gesture_recognition_confidence, templates (the templates    *)
(*     of the global gesture_recognizer)                                   *)
(*   environment: now (the value time.time() returns), running (the        *)
(*     coroutine that holds the event loop, NoTask when all are suspended  *)
(*     in an await)                                                        *)
(*   per connection: endpoint, pc, data (the text last received),          *)
(*     replies (what was sent since data was received) and the locals      *)
(*     frame_skip_counter, process_every_nth_frame, should_process, frame, *)
(*     results, start_time                                                 *)
(*   recognition: the last direct call of gesture_recognizer               *)
(***************************************************************************)
VARIABLES
    model_loaded, tracking_enabled, frame_count, detection_count,
    fps_start_time, detection_times, current_detections, frame_lock,
    current_hand_detection_confidence, current_gesture_recognition_confidence,
    templates, now, running,
    endpoint, pc, data, replies, frame_skip_counter,
    process_every_nth_frame, should_process, frame, results, start_time,
    recognition

pipeline_vars ==
    << tracking_enabled, frame_count, detection_count, fps_start_time,
       detection_times, current_detections >>

manager_vars ==
    << model_loaded, tracking_enabled, frame_count, detection_count,
       fps_start_time, detection_times, current_detections, frame_lock >>

confidence_vars ==
    << current_hand_detection_confidence, current_gesture_recognition_confidence >>

conn_vars ==
    << endpoint, pc, data, replies, frame_skip_counter,
       process_every_nth_frame, should_process, frame, results, start_time >>

recognizer_vars == << templates, recognition >>

vars ==
    << model_loaded, tracking_enabled, frame_count, detection_count,
       fps_start_time, detection_times, current_detections, frame_lock,
       current_hand_detection_confidence, current_gesture_recognition_confidence,
       templates, now, running,
       endpoint, pc, data, replies, frame_skip_counter,
       process_every_nth_frame, should_process, frame, results, start_time,
       recognition >>

(***************************************************************************)
(* Bounds of the model.                                                    *)
(***************************************************************************)
\* frames the pipeline processes in a run of Spec
MaxFrames == 1

\* frame messages one connection receives in a run of Spec
MaxSkip == 1

\* the clock readings of a run of Spec: time.time() stays within 0..MaxClock
MaxClock == 0

\* SpecPipe: frames received, clock readings, and frames without a detection
PipeFrames == 62

PipeClock == 1

PipeMisses == 1

\* SpecMatch: templates held by the recognizer
MaxTemplates == 2

(***************************************************************************)
(* Program constants.                                                      *)
(***************************************************************************)
\* deque(maxlen=30)
WindowCap == 30

\* if self.detection_count % 60 == 0
SummaryEvery == 60

\* self.detection_frame_size = 320
DetectionFrameSize == 320

\* current_hand_detection_confidence = 0.75
InitialHandConfidence == 750

\* current_gesture_recognition_confidence = 0.85
InitialGestureConfidence == 850

\* process_every_nth_frame = 0.5
InitialNth == 500

\* process_every_nth_frame = 0.2
ForcedNth == 200

\* "Process every 3rd frame", the stride the comment on the initial setting
\* states
CommentedStride == 3

Conns == {"c1", "c2"}

NoTask == "no_task"

\* Every handler is a coroutine of the one event loop, which runs in one thread.
ThreadOf(c) == "MainThread"

(***************************************************************************)
(* threading.RLock: owned by a thread, re-entrant for its owner.           *)
(***************************************************************************)
LockFree == [owner |-> "none", count |-> 0]

CanAcquire(lock, t) == lock.owner \in {"none", t}

Acquire(lock, t) == [owner |-> t, count |-> lock.count + 1]

Release(lock) ==
    IF lock.count <= 1 THEN LockFree ELSE [lock EXCEPT !.count = @ - 1]

HeldBy(lock, t) == lock.owner = t /\ lock.count > 0

(***************************************************************************)
(* Inbound texts.  A text is described by what json.loads makes of it:     *)
(* wf = "invalid" (json.loads raises), "nonobject" (a list, a number, a    *)
(* string, null: .get raises AttributeError) or "object", with the fields  *)
(* message_type and type ("" when the key is absent) and arg, the other    *)
(* keys the handler of that kind reads.                                    *)
(***************************************************************************)
Text(wf, mt, ty, arg) == [wf |-> wf, message_type |-> mt, type |-> ty, arg |-> arg]

NoData == Text("none", "", "", None)

Obj(ty, arg) == Text("object", "", ty, arg)

\* message.get("message_type") or message.get("type")
MessageType(m) == IF m.message_type # "" THEN m.message_type ELSE m.type

Pt(x, y) == << x * FP, y * FP >>

TrajOne == << Pt(5, 5) >>

TrajDiag == << Pt(0, 0), Pt(1, 1) >>

TrajRevDiag == << Pt(1, 1), Pt(0, 0) >>

TrajL == << Pt(0, 0), Pt(10, 0), Pt(10, 10) >>

TrajLDense == << Pt(0, 0), Pt(5, 0), Pt(10, 0), Pt(10, 5), Pt(10, 10) >>

TrajSame == << Pt(3, 3), Pt(3, 3) >>

Tpl(name, trajectory, command) ==
    [name |-> name, trajectory |-> trajectory, command |-> command]

Recognize(trajectory, threshold, tpls) ==
    Obj("recognize_gesture",
        [trajectory |-> trajectory, confidence_threshold |-> threshold, templates |-> tpls])

\* A number in a message: a JSON number, or a value float() raises on.
Num(v) == [numeric |-> TRUE, val |-> v]

NotANumber == [numeric |-> FALSE, val |-> 0]

WsTexts ==
    { Text("invalid", "", "", None),
      Text("nonobject", "", "", None),
      Obj("ping", None),
      Text("object", "ping", "bogus", None),
      Obj("start_tracking", None),
      Obj("stop_tracking", None),
      Obj("save_template", None),
      Obj("bogus", None),
      Recognize(TrajOne, << >>, << >>),
      Recognize(TrajLDense, << >>,
                << Tpl("diag", TrajDiag, "paste"), Tpl("L", TrajL, "copy") >>),
      Recognize(TrajDiag, << >>, << Tpl("dot", TrajOne, "quit") >>) }

FramesTexts ==
    { Text("invalid", "", "", None),
      Text("nonobject", "", "", None),
      Obj("ping", None),
      Obj("bogus", None),
      Obj("refresh_detection", [force_process |-> FALSE]),
      Obj("refresh_detection", [force_process |-> TRUE]),
      Obj("update_confidence", [hand |-> << Num(600) >>, gesture |-> << Num(600) >>]),
      Obj("update_confidence", [hand |-> << NotANumber >>, gesture |-> << Num(600) >>]),
      Obj("frame", [payload |-> "absent"]),
      Obj("frame", [payload |-> "undecodable"]),
      Obj("frame", [payload |-> "notimage"]),
      Obj("frame", [payload |-> "image"]) }

(***************************************************************************)
(* Outbound messages.  The timestamp fields are left out.                  *)
(***************************************************************************)
Pong == [type |-> "pong"]

StatusSuccess(text) == [status |-> "success", message |-> text]

SaveTemplateInfo == [type |-> "info", message |-> "client-side only"]

NotRecognized(text) == [type |-> "gesture_not_recognized", message |-> text]

GestureRecognized(name, similarity, command) ==
    [type |-> "gesture_recognized", template_name |-> name,
     similarity |-> similarity, command |-> command]

ErrorReply(text) == [type |-> "error", message |-> text]

UnknownMessageType(kind) ==
    [status |-> "error", message |-> << "Unknown message type", kind >>]

ConnectionEstablished(hand, gesture) ==
    [type |-> "connection_established", current_hand_confidence |-> hand,
     current_gesture_confidence |-> gesture]

FrameReceived == [type |-> "frame_received"]

DetectionReply(d) == [type |-> "detection", detection |-> d]

RefreshReply(d) ==
    [type |-> "detection", detection |-> d, source |-> "refresh_request"]

ConfidenceUpdated(hand, gesture) ==
    [type |-> "confidence_updated", hand_detection_confidence |-> hand,
     gesture_recognition_confidence |-> gesture]

(***************************************************************************)
(* The detector (model.infer) and the image codec are external: an         *)
(* inference raises or returns a list of results, and the first result     *)
(* holds the predictions.                                                  *)
(***************************************************************************)
Prediction(x, y, w, h, confidence) ==
    [x |-> x, y |-> y, width |-> w, height |-> h, confidence |-> confidence,
     class_name |-> "hand"]

PredLow == Prediction(100, 50, 40, 40, 700)

PredEq == Prediction(160, 160, 80, 60, 750)

PredHigh == Prediction(200, 100, 60, 80, 900)

Results(predictions) == [kind |-> "results", list |-> << [predictions |-> predictions] >>]

InferOutcomes ==
    { Raised,
      [kind |-> "results", list |-> << >>],
      Results(<< >>),
      Results(<< PredEq >>),
      Results(<< PredLow, PredHigh >>) }

\* cv2.imdecode of a valid payload
DecodedImage == [width |-> 640, height |-> 480]

\* What time.time() can advance by during one inference
Latencies == {0, 1}

(***************************************************************************)
(* Helpers of the actions.                                                 *)
(***************************************************************************)
\* frame_skip_counter % process_every_nth_frame == 0 in Python's arithmetic.
\* 0.5 is a power of two, so the remainder of an integer is exact.  0.2 is
\* the double 0.200000000000000011..., of which no integer from 1 up to 2^51
\* is a multiple, so the remainder is non-zero for every counter but 0.
ShouldProcess(counter, nth) ==
    IF nth = ForcedNth THEN counter = 0
    ELSE (counter * FP) % nth = 0

\* max(predictions, key=lambda x: x.confidence): the first of the maxima
BestDetection(predictions) ==
    LET top == CHOOSE i \in 1..Len(predictions) :
                   /\ \A j \in 1..Len(predictions) :
                          predictions[j].confidence <= predictions[i].confidence
                   /\ \A j \in 1..(i - 1) :
                          predictions[j].confidence < predictions[i].confidence
    IN  predictions[top]

\* Faulty variant of DetectionOf: a best confidence equal to the threshold
\* passes.
DetectionOfInclusive(res, confidence_threshold, image) ==
    IF res = Raised THEN None
    ELSE IF res.list = << >> THEN None
    ELSE LET predictions == res.list[1].predictions
         IN  IF predictions = << >> THEN None
             ELSE LET best_detection == BestDetection(predictions)
                  IN  IF best_detection.confidence >= confidence_threshold
                      THEN [x |-> (best_detection.x * image.width) \div DetectionFrameSize,
                            y |-> (best_detection.y * image.height) \div DetectionFrameSize,
                            width |-> (best_detection.width * image.width) \div DetectionFrameSize,
                            height |-> (best_detection.height * image.height) \div DetectionFrameSize,
                            confidence |-> best_detection.confidence,
                            class |-> best_detection.class_name]
                      ELSE None

\* The result of process_frame's try block: the detection, or None
DetectionOf(res, confidence_threshold, image) ==
    IF res = Raised THEN None
    ELSE IF res.list = << >> THEN None
    ELSE LET predictions == res.list[1].predictions
         IN  IF predictions = << >> THEN None
             ELSE LET best_detection == BestDetection(predictions)
                  IN  IF best_detection.confidence > confidence_threshold
                      THEN [x |-> (best_detection.x * image.width) \div DetectionFrameSize,
                            y |-> (best_detection.y * image.height) \div DetectionFrameSize,
                            width |-> (best_detection.width * image.width) \div DetectionFrameSize,
                            height |-> (best_detection.height * image.height) \div DetectionFrameSize,
                            confidence |-> best_detection.confidence,
                            class |-> best_detection.class_name]
                      ELSE None

\* Faulty variant of WindowAppend: a plain list, nothing evicted.
WindowAppendUnbounded(window, v) == Append(window, v)

\* deque(maxlen=30).append
WindowAppend(window, v) ==
    IF Len(window) >= WindowCap THEN Append(Tail(window), v)
    ELSE Append(window, v)

\* The templates of the temporary recognizer the recognize_gesture handler fills
RECURSIVE LoadTemplates(_, _, _)
LoadTemplates(tpls, i, acc) ==
    IF i > Len(tpls) THEN acc
    ELSE LoadTemplates(tpls, i + 1,
                       AddTemplateTo(acc, << "temp", i - 1, tpls[i].name >>,
                                     tpls[i].name, tpls[i].trajectory))

\* next((t for t in templates if t.get("name") == name), {}).get("command", "")
CommandOf(tpls, name) ==
    IF \E i \in 1..Len(tpls) : tpls[i].name = name
    THEN tpls[CHOOSE i \in 1..Len(tpls) :
                  /\ tpls[i].name = name
                  /\ \A j \in 1..(i - 1) : tpls[j].name # name].command
    ELSE ""

\* Faulty variant of RecognizeReply: the template list is tested before the
\* trajectory's length.
RecognizeReplyTemplatesFirst(arg, default_threshold) ==
    LET confidence_threshold ==
            IF arg.confidence_threshold = << >> THEN default_threshold
            ELSE arg.confidence_threshold[1]
    IN  IF arg.templates = << >>
        THEN NotRecognized("No templates provided for recognition")
        ELSE IF Len(arg.trajectory) < 2
        THEN NotRecognized("Trajectory must have at least 2 points")
        ELSE LET recognition_result ==
                     RecognizeGesture(LoadTemplates(arg.templates, 1, << >>),
                                      arg.trajectory, confidence_threshold)
             IN  IF recognition_result = Raised
                 THEN ErrorReply("Failed to recognize gesture")
                 ELSE IF recognition_result # None
                 THEN GestureRecognized(recognition_result.name,
                                        recognition_result.confidence,
                                        CommandOf(arg.templates, recognition_result.name))
                 ELSE NotRecognized("No matching gesture found")

\* The reply of the recognize_gesture handler
RecognizeReply(arg, default_threshold) ==
    LET confidence_threshold ==
            IF arg.confidence_threshold = << >> THEN default_threshold
            ELSE arg.confidence_threshold[1]
    IN  IF Len(arg.trajectory) < 2
        THEN NotRecognized("Trajectory must have at least 2 points")
        ELSE IF arg.templates = << >>
        THEN NotRecognized("No templates provided for recognition")
        ELSE LET recognition_result ==
                     RecognizeGesture(LoadTemplates(arg.templates, 1, << >>),
                                      arg.trajectory, confidence_threshold)
             IN  IF recognition_result = Raised
                 THEN ErrorReply("Failed to recognize gesture")
                 ELSE IF recognition_result # None
                 THEN GestureRecognized(recognition_result.name,
                                        recognition_result.confidence,
                                        CommandOf(arg.templates, recognition_result.name))
                 ELSE NotRecognized("No matching gesture found")

\* A coroutine runs when the event loop is free, and keeps it until it awaits.
Sched(c) == running \in {NoTask, c}

AtReceive(c, ep) == endpoint[c] = ep /\ pc[c] = "recv" /\ running = NoTask

\* The handler's last send, after which the loop awaits the next text.
Respond(c, m, rs) ==
    /\ pc' = [pc EXCEPT ![c] = "recv"]
    /\ data' = [data EXCEPT ![c] = m]
    /\ replies' = [replies EXCEPT ![c] = rs]
    /\ running' = NoTask

frame_locals == << should_process, frame, results, start_time >>

skip_vars == << frame_skip_counter, process_every_nth_frame >>

(***************************************************************************)
(* Init: the state after the module is loaded (camera_manager and          *)
(* gesture_recognizer constructed, no connection accepted).  The model is  *)
(* loaded or not, as the environment (inference library, API key) has it.  *)
(***************************************************************************)
Init ==
    /\ model_loaded \in BOOLEAN
    /\ tracking_enabled = TRUE
    /\ frame_count = 0
    /\ detection_count = 0
    /\ fps_start_time = 0
    /\ detection_times = << >>
    /\ current_detections = << >>
    /\ frame_lock = LockFree
    /\ current_hand_detection_confidence = InitialHandConfidence
    /\ current_gesture_recognition_confidence = InitialGestureConfidence
    /\ templates = << >>
    /\ now = 0
    /\ running = NoTask
    /\ endpoint = [c \in Conns |-> "none"]
    /\ pc = [c \in Conns |-> "none"]
    /\ data = [c \in Conns |-> NoData]
    /\ replies = [c \in Conns |-> << >>]
    /\ frame_skip_counter = [c \in Conns |-> 0]
    /\ process_every_nth_frame = [c \in Conns |-> InitialNth]
    /\ should_process = [c \in Conns |-> FALSE]
    /\ frame = [c \in Conns |-> None]
    /\ results = [c \in Conns |-> None]
    /\ start_time = [c \in Conns |-> 0]
    /\ recognition = None

(***************************************************************************)
(* Connections.                                                            *)
(***************************************************************************)
\* websocket.accept(), and on /ws/frames the connection_established message
Accept(c, ep) ==
    /\ pc[c] = "none"
    /\ running = NoTask
    /\ endpoint' = [endpoint EXCEPT ![c] = ep]
    /\ pc' = [pc EXCEPT ![c] = "recv"]
    /\ replies' = [replies EXCEPT ![c] =
           IF ep = "frames"
           THEN << ConnectionEstablished(current_hand_detection_confidence,
                                         current_gesture_recognition_confidence) >>
           ELSE << >>]
    /\ frame_skip_counter' = [frame_skip_counter EXCEPT ![c] = 0]
    /\ process_every_nth_frame' = [process_every_nth_frame EXCEPT ![c] = InitialNth]
    /\ UNCHANGED << manager_vars, confidence_vars, recognizer_vars, now, running,
                    data, frame_locals >>

\* The peer goes away while the coroutine is suspended in receive_text or
\* send_text: WebSocketDisconnect ends the endpoint function, and its locals
\* with it.
Disconnect(c) ==
    /\ pc[c] \in {"recv", "frame_ack"}
    /\ running = NoTask
    /\ pc' = [pc EXCEPT ![c] = "disconnected"]
    /\ data' = [data EXCEPT ![c] = NoData]
    /\ replies' = [replies EXCEPT ![c] = << >>]
    /\ frame_skip_counter' = [frame_skip_counter EXCEPT ![c] = 0]
    /\ process_every_nth_frame' = [process_every_nth_frame EXCEPT ![c] = InitialNth]
    /\ should_process' = [should_process EXCEPT ![c] = FALSE]
    /\ UNCHANGED << manager_vars, confidence_vars, recognizer_vars, now, running,
                    endpoint, frame, results, start_time >>

(***************************************************************************)
(* /ws: websocket_endpoint                                                 *)
(***************************************************************************)
\* json.loads raises, or message.get raises on a non-object: the only
\* handler is the outer "except Exception", which logs and returns.
WsMalformed(c, m) ==
    /\ AtReceive(c, "ws")
    /\ m.wf \in {"invalid", "nonobject"}
    /\ pc' = [pc EXCEPT ![c] = "error_exit"]
    /\ data' = [data EXCEPT ![c] = m]
    /\ replies' = [replies EXCEPT ![c] = << >>]
    /\ UNCHANGED << manager_vars, confidence_vars, recognizer_vars, now, running,
                    endpoint, skip_vars, frame_locals >>

WsPing(c, m) ==
    /\ AtReceive(c, "ws")
    /\ m.wf = "object" /\ MessageType(m) = "ping"
    /\ Respond(c, m, << Pong >>)
    /\ UNCHANGED << manager_vars, confidence_vars, recognizer_vars, now,
                    endpoint, skip_vars, frame_locals >>

WsStartTracking(c, m) ==
    /\ AtReceive(c, "ws")
    /\ m.wf = "object" /\ MessageType(m) = "start_tracking"
    /\ tracking_enabled' = TRUE
    /\ Respond(c, m, << StatusSuccess("Tracking started") >>)
    /\ UNCHANGED << model_loaded, frame_count, detection_count, fps_start_time,
                    detection_times, current_detections, frame_lock,
                    confidence_vars, recognizer_vars, now,
                    endpoint, skip_vars, frame_locals >>

\* stop_tracking up to the entry of "with camera_manager.frame_lock"
WsStopTracking(c, m) ==
    /\ AtReceive(c, "ws")
    /\ m.wf = "object" /\ MessageType(m) = "stop_tracking"
    /\ tracking_enabled' = FALSE
    /\ CanAcquire(frame_lock, ThreadOf(c))
    /\ frame_lock' = Acquire(frame_lock, ThreadOf(c))
    /\ pc' = [pc EXCEPT ![c] = "stop_locked"]
    /\ data' = [data EXCEPT ![c] = m]
    /\ replies' = [replies EXCEPT ![c] = << >>]
    /\ running' = c
    /\ UNCHANGED << model_loaded, frame_count, detection_count, fps_start_time,
                    detection_times, current_detections,
                    confidence_vars, recognizer_vars, now,
                    endpoint, skip_vars, frame_locals >>

\* Faulty variant of WsStopClear: the counters are reset with the detection.
WsStopClearResets(c) ==
    /\ pc[c] = "stop_locked"
    /\ Sched(c)
    /\ current_detections' = << >>
    /\ frame_count' = 0
    /\ detection_count' = 0
    /\ frame_lock' = Release(frame_lock)
    /\ Respond(c, data[c], << StatusSuccess("Tracking stopped") >>)
    /\ UNCHANGED << model_loaded, tracking_enabled,
                    fps_start_time, detection_times,
                    confidence_vars, recognizer_vars, now,
                    endpoint, skip_vars, frame_locals >>

\* Faulty variant of WsStopClear: the current detection is kept.
WsStopKeeps(c) ==
    /\ pc[c] = "stop_locked"
    /\ Sched(c)
    /\ frame_lock' = Release(frame_lock)
    /\ Respond(c, data[c], << StatusSuccess("Tracking stopped") >>)
    /\ UNCHANGED << model_loaded, tracking_enabled, frame_count, detection_count,
                    fps_start_time, detection_times, current_detections,
                    confidence_vars, recognizer_vars, now,
                    endpoint, skip_vars, frame_locals >>

\* the body of the with block, its exit and the acknowledgment
WsStopClear(c) ==
    /\ pc[c] = "stop_locked"
    /\ Sched(c)
    /\ current_detections' = << >>
    /\ frame_lock' = Release(frame_lock)
    /\ Respond(c, data[c], << StatusSuccess("Tracking stopped") >>)
    /\ UNCHANGED << model_loaded, tracking_enabled, frame_count, detection_count,
                    fps_start_time, detection_times,
                    confidence_vars, recognizer_vars, now,
                    endpoint, skip_vars, frame_locals >>

WsSaveTemplate(c, m) ==
    /\ AtReceive(c, "ws")
    /\ m.wf = "object" /\ MessageType(m) = "save_template"
    /\ Respond(c, m, << SaveTemplateInfo >>)
    /\ UNCHANGED << manager_vars, confidence_vars, recognizer_vars, now,
                    endpoint, skip_vars, frame_locals >>

\* Faulty variant of WsRecognizeGesture: the request's templates are added to
\* the global gesture_recognizer, which answers.
WsRecognizeGestureKeeps(c, m) ==
    /\ AtReceive(c, "ws")
    /\ m.wf = "object" /\ MessageType(m) = "recognize_gesture"
    /\ LET kept == LoadTemplates(m.arg.templates, 1, templates)
           confidence_threshold ==
               IF m.arg.confidence_threshold = << >>
               THEN current_gesture_recognition_confidence
               ELSE m.arg.confidence_threshold[1]
           recognition_result == RecognizeGesture(kept, m.arg.trajectory, confidence_threshold)
       IN  /\ templates' = kept
           /\ Respond(c, m,
                  << IF Len(m.arg.trajectory) < 2
                     THEN NotRecognized("Trajectory must have at least 2 points")
                     ELSE IF m.arg.templates = << >>
                     THEN NotRecognized("No templates provided for recognition")
                     ELSE IF recognition_result = Raised
                     THEN ErrorReply("Failed to recognize gesture")
                     ELSE IF recognition_result # None
                     THEN GestureRecognized(recognition_result.name,
                                            recognition_result.confidence,
                                            CommandOf(m.arg.templates, recognition_result.name))
                     ELSE NotRecognized("No matching gesture found") >>)
    /\ UNCHANGED << manager_vars, confidence_vars, recognition, now,
                    endpoint, skip_vars, frame_locals >>

WsRecognizeGesture(c, m) ==
    /\ AtReceive(c, "ws")
    /\ m.wf = "object" /\ MessageType(m) = "recognize_gesture"
    /\ Respond(c, m, << RecognizeReply(m.arg, current_gesture_recognition_confidence) >>)
    /\ UNCHANGED << manager_vars, confidence_vars, recognizer_vars, now,
                    endpoint, skip_vars, frame_locals >>

WsKinds == {"ping", "start_tracking", "stop_tracking", "save_template", "recognize_gesture"}

WsUnknown(c, m) ==
    /\ AtReceive(c, "ws")
    /\ m.wf = "object" /\ MessageType(m) \notin WsKinds
    /\ Respond(c, m, << UnknownMessageType(MessageType(m)) >>)
    /\ UNCHANGED << manager_vars, confidence_vars, recognizer_vars, now,
                    endpoint, skip_vars, frame_locals >>

(***************************************************************************)
(* /ws/frames: frame_stream_endpoint                                       *)
(***************************************************************************)
\* except json.JSONDecodeError
FramesInvalidJson(c, m) ==
    /\ AtReceive(c, "frames")
    /\ m.wf = "invalid"
    /\ Respond(c, m, << ErrorReply("Invalid JSON format") >>)
    /\ UNCHANGED << manager_vars, confidence_vars, recognizer_vars, now,
                    endpoint, skip_vars, frame_locals >>

\* message.get raises AttributeError: the inner "except Exception"
FramesNonObject(c, m) ==
    /\ AtReceive(c, "frames")
    /\ m.wf = "nonobject"
    /\ Respond(c, m, << DetectionReply(None) >>)
    /\ UNCHANGED << manager_vars, confidence_vars, recognizer_vars, now,
                    endpoint, skip_vars, frame_locals >>

FramesPing(c, m) ==
    /\ AtReceive(c, "frames")
    /\ m.wf = "object" /\ m.type = "ping"
    /\ Respond(c, m, << Pong >>)
    /\ UNCHANGED << manager_vars, confidence_vars, recognizer_vars, now,
                    endpoint, skip_vars, frame_locals >>

FramesRefreshDetection(c, m) ==
    /\ AtReceive(c, "frames")
    /\ m.wf = "object" /\ m.type = "refresh_detection"
    /\ tracking_enabled' = TRUE
    /\ process_every_nth_frame' =
           IF m.arg.force_process
           THEN [process_every_nth_frame EXCEPT ![c] = ForcedNth]
           ELSE process_every_nth_frame
    /\ Respond(c, m, << RefreshReply(IF current_detections # << >>
                                     THEN current_detections[1] ELSE None) >>)
    /\ UNCHANGED << model_loaded, frame_count, detection_count, fps_start_time,
                    detection_times, current_detections, frame_lock,
                    confidence_vars, recognizer_vars, now,
                    endpoint, frame_skip_counter, frame_locals >>

\* Faulty variant of FramesUpdateConfidence: a threshold the message does not
\* name is set back to its initial value.
FramesUpdateConfidenceResets(c, m) ==
    /\ AtReceive(c, "frames")
    /\ m.wf = "object" /\ m.type = "update_confidence"
    /\ LET hand_raises == m.arg.hand # << >> /\ ~m.arg.hand[1].numeric
           gesture_raises == ~hand_raises /\ m.arg.gesture # << >>
                             /\ ~m.arg.gesture[1].numeric
           hand == IF m.arg.hand # << >> /\ ~hand_raises
                   THEN m.arg.hand[1].val
                   ELSE InitialHandConfidence
           gesture == IF m.arg.gesture # << >> /\ ~hand_raises /\ ~gesture_raises
                      THEN m.arg.gesture[1].val
                      ELSE InitialGestureConfidence
       IN  /\ current_hand_detection_confidence' = hand
           /\ current_gesture_recognition_confidence' = gesture
           /\ Respond(c, m, IF hand_raises \/ gesture_raises
                            THEN << DetectionReply(None) >>
                            ELSE << ConfidenceUpdated(hand, gesture) >>)
    /\ UNCHANGED << manager_vars, recognizer_vars, now,
                    endpoint, skip_vars, frame_locals >>

\* float() of a value that is no number raises ValueError after the earlier
\* assignment was made; the inner "except Exception" answers.
FramesUpdateConfidence(c, m) ==
    /\ AtReceive(c, "frames")
    /\ m.wf = "object" /\ m.type = "update_confidence"
    /\ LET hand_raises == m.arg.hand # << >> /\ ~m.arg.hand[1].numeric
           gesture_raises == ~hand_raises /\ m.arg.gesture # << >>
                             /\ ~m.arg.gesture[1].numeric
           hand == IF m.arg.hand # << >> /\ ~hand_raises
                   THEN m.arg.hand[1].val
                   ELSE current_hand_detection_confidence
           gesture == IF m.arg.gesture # << >> /\ ~hand_raises /\ ~gesture_raises
                      THEN m.arg.gesture[1].val
                      ELSE current_gesture_recognition_confidence
       IN  /\ current_hand_detection_confidence' = hand
           /\ current_gesture_recognition_confidence' = gesture
           /\ Respond(c, m, IF hand_raises \/ gesture_raises
                            THEN << DetectionReply(None) >>
                            ELSE << ConfidenceUpdated(hand, gesture) >>)
    /\ UNCHANGED << manager_vars, recognizer_vars, now,
                    endpoint, skip_vars, frame_locals >>

\* The frame branch up to "await websocket.send_text(frame_received)"
FramesFrame(c, m) ==
    /\ AtReceive(c, "frames")
    /\ m.wf = "object" /\ m.type = "frame"
    /\ frame_skip_counter' = [frame_skip_counter EXCEPT ![c] = @ + 1]
    /\ should_process' = [should_process EXCEPT ![c] =
           ShouldProcess(frame_skip_counter[c] + 1, process_every_nth_frame[c])]
    /\ pc' = [pc EXCEPT ![c] = "frame_ack"]
    /\ data' = [data EXCEPT ![c] = m]
    /\ replies' = [replies EXCEPT ![c] = << FrameReceived >>]
    /\ running' = NoTask
    /\ UNCHANGED << manager_vars, confidence_vars, recognizer_vars, now,
                    endpoint, process_every_nth_frame, frame, results, start_time >>

\* Faulty variant of FrameDecode: a payload that does not decode ends the handler
\* without the detection message.
FrameDecodeSilent(c) ==
    /\ pc[c] = "frame_ack"
    /\ running = NoTask
    /\ LET payload == data[c].arg.payload
           attempt == payload # "absent" /\ tracking_enabled /\ should_process[c]
       IN  IF attempt /\ payload = "image"
           THEN /\ frame' = [frame EXCEPT ![c] = DecodedImage]
                /\ pc' = [pc EXCEPT ![c] = "pf_call"]
                /\ running' = c
                /\ UNCHANGED << data, replies, should_process >>
           ELSE /\ Respond(c, data[c],
                           IF attempt THEN replies[c]
                           ELSE Append(replies[c], DetectionReply(None)))
                /\ should_process' = [should_process EXCEPT ![c] = FALSE]
                /\ UNCHANGED frame
    /\ UNCHANGED << manager_vars, confidence_vars, recognizer_vars, now,
                    endpoint, skip_vars, results, start_time >>

\* After the acknowledgment: the test of line 627 and the decoding.  Without
\* a call of process_frame the detection message (null) is sent at once.
FrameDecode(c) ==
    /\ pc[c] = "frame_ack"
    /\ running = NoTask
    /\ LET payload == data[c].arg.payload
           attempt == payload # "absent" /\ tracking_enabled /\ should_process[c]
       IN  IF attempt /\ payload = "image"
           THEN /\ frame' = [frame EXCEPT ![c] = DecodedImage]
                /\ pc' = [pc EXCEPT ![c] = "pf_call"]
                /\ running' = c
                /\ UNCHANGED << data, replies, should_process >>
           ELSE /\ Respond(c, data[c], Append(replies[c], DetectionReply(None)))
                /\ should_process' = [should_process EXCEPT ![c] = FALSE]
                /\ UNCHANGED frame
    /\ UNCHANGED << manager_vars, confidence_vars, recognizer_vars, now,
                    endpoint, skip_vars, results, start_time >>

\* Faulty variant of PFGuard: the guard does not test self.model.
PFGuardNoModelTest(c) ==
    /\ pc[c] = "pf_call"
    /\ Sched(c)
    /\ IF ~tracking_enabled \/ frame[c] = None
       THEN /\ Respond(c, data[c], Append(replies[c], DetectionReply(None)))
            /\ should_process' = [should_process EXCEPT ![c] = FALSE]
            /\ frame' = [frame EXCEPT ![c] = None]
            /\ UNCHANGED frame_lock
       ELSE /\ CanAcquire(frame_lock, ThreadOf(c))
            /\ frame_lock' = Acquire(frame_lock, ThreadOf(c))
            /\ pc' = [pc EXCEPT ![c] = "pf_locked"]
            /\ running' = c
            /\ UNCHANGED << data, replies, should_process, frame >>
    /\ UNCHANGED << model_loaded, tracking_enabled, frame_count, detection_count,
                    fps_start_time, detection_times, current_detections,
                    confidence_vars, recognizer_vars, now,
                    endpoint, skip_vars, results, start_time >>

\* Faulty variant of PFGuard: the coroutine awaits inside the with block (the
\* inference handed to the event loop), so other handlers run meanwhile.
PFGuardAwaits(c) ==
    /\ pc[c] = "pf_call"
    /\ Sched(c)
    /\ IF ~tracking_enabled \/ ~model_loaded \/ frame[c] = None
       THEN /\ Respond(c, data[c], Append(replies[c], DetectionReply(None)))
            /\ should_process' = [should_process EXCEPT ![c] = FALSE]
            /\ frame' = [frame EXCEPT ![c] = None]
            /\ UNCHANGED frame_lock
       ELSE /\ CanAcquire(frame_lock, ThreadOf(c))
            /\ frame_lock' = Acquire(frame_lock, ThreadOf(c))
            /\ pc' = [pc EXCEPT ![c] = "pf_locked"]
            /\ running' = NoTask
            /\ UNCHANGED << data, replies, should_process, frame >>
    /\ UNCHANGED << model_loaded, tracking_enabled, frame_count, detection_count,
                    fps_start_time, detection_times, current_detections,
                    confidence_vars, recognizer_vars, now,
                    endpoint, skip_vars, results, start_time >>

\* process_frame: the guard and the entry of "with self.frame_lock"
PFGuard(c) ==
    /\ pc[c] = "pf_call"
    /\ Sched(c)
    /\ IF ~tracking_enabled \/ ~model_loaded \/ frame[c] = None
       THEN /\ Respond(c, data[c], Append(replies[c], DetectionReply(None)))
            /\ should_process' = [should_process EXCEPT ![c] = FALSE]
            /\ frame' = [frame EXCEPT ![c] = None]
            /\ UNCHANGED frame_lock
       ELSE /\ CanAcquire(frame_lock, ThreadOf(c))
            /\ frame_lock' = Acquire(frame_lock, ThreadOf(c))
            /\ pc' = [pc EXCEPT ![c] = "pf_locked"]
            /\ running' = c
            /\ UNCHANGED << data, replies, should_process, frame >>
    /\ UNCHANGED << model_loaded, tracking_enabled, frame_count, detection_count,
                    fps_start_time, detection_times, current_detections,
                    confidence_vars, recognizer_vars, now,
                    endpoint, skip_vars, results, start_time >>

\* process_frame: the count, the clock reading and the call of model.infer,
\* which takes d and raises or returns outcome
PFInfer(c, outcome, d) ==
    /\ pc[c] = "pf_locked"
    /\ Sched(c)
    /\ frame_count' = frame_count + 1
    /\ start_time' = [start_time EXCEPT ![c] = now]
    /\ results' = [results EXCEPT ![c] = outcome]
    /\ now' = now + d
    /\ pc' = [pc EXCEPT ![c] = "pf_results"]
    /\ running' = c
    /\ UNCHANGED << model_loaded, tracking_enabled, detection_count,
                    fps_start_time, detection_times, current_detections, frame_lock,
                    confidence_vars, recognizer_vars,
                    endpoint, data, replies, skip_vars, should_process, frame >>

\* Faulty variant of PFRecord: the summary resets the time origin and leaves
\* the window as it is.
PFRecordKeepsWindow(c) ==
    /\ pc[c] = "pf_results"
    /\ Sched(c)
    /\ LET det == DetectionOf(results[c], current_hand_detection_confidence, frame[c])
           count == detection_count + 1
           window == WindowAppend(detection_times, now - start_time[c])
           summary == count % SummaryEvery = 0 /\ now - fps_start_time > 0
       IN  /\ IF det # None
              THEN /\ current_detections' = << det >>
                   /\ detection_count' = count
                   /\ detection_times' = window
                   /\ fps_start_time' = IF summary THEN now ELSE fps_start_time
              ELSE UNCHANGED << current_detections, detection_count,
                                detection_times, fps_start_time >>
           /\ Respond(c, data[c], Append(replies[c], DetectionReply(det)))
    /\ frame_lock' = Release(frame_lock)
    /\ should_process' = [should_process EXCEPT ![c] = FALSE]
    /\ frame' = [frame EXCEPT ![c] = None]
    /\ results' = [results EXCEPT ![c] = None]
    /\ start_time' = [start_time EXCEPT ![c] = 0]
    /\ UNCHANGED << model_loaded, tracking_enabled, frame_count,
                    confidence_vars, recognizer_vars, now,
                    endpoint, skip_vars >>

\* Faulty variant of PFRecord: the lock taken with acquire() and released only on the
\* normal path, so an inference that raises leaves it held.
PFRecordLeaksLock(c) ==
    /\ pc[c] = "pf_results"
    /\ Sched(c)
    /\ LET det == DetectionOf(results[c], current_hand_detection_confidence, frame[c])
           count == detection_count + 1
           window == WindowAppend(detection_times, now - start_time[c])
           summary == count % SummaryEvery = 0 /\ now - fps_start_time > 0
       IN  /\ IF det # None
              THEN /\ current_detections' = << det >>
                   /\ detection_count' = count
                   /\ detection_times' = IF summary THEN << >> ELSE window
                   /\ fps_start_time' = IF summary THEN now ELSE fps_start_time
              ELSE UNCHANGED << current_detections, detection_count,
                                detection_times, fps_start_time >>
           /\ Respond(c, data[c], Append(replies[c], DetectionReply(det)))
    /\ frame_lock' = IF results[c] = Raised THEN frame_lock ELSE Release(frame_lock)
    /\ should_process' = [should_process EXCEPT ![c] = FALSE]
    /\ frame' = [frame EXCEPT ![c] = None]
    /\ results' = [results EXCEPT ![c] = None]
    /\ start_time' = [start_time EXCEPT ![c] = 0]
    /\ UNCHANGED << model_loaded, tracking_enabled, frame_count,
                    confidence_vars, recognizer_vars, now,
                    endpoint, skip_vars >>

\* process_frame: the processing of the results (or the except clause), the
\* exit of the with block, the return, and the detection message
PFRecord(c) ==
    /\ pc[c] = "pf_results"
    /\ Sched(c)
    /\ LET det == DetectionOf(results[c], current_hand_detection_confidence, frame[c])
           count == detection_count + 1
           window == WindowAppend(detection_times, now - start_time[c])
           summary == count % SummaryEvery = 0 /\ now - fps_start_time > 0
       IN  /\ IF det # None
              THEN /\ current_detections' = << det >>
                   /\ detection_count' = count
                   /\ detection_times' = IF summary THEN << >> ELSE window
                   /\ fps_start_time' = IF summary THEN now ELSE fps_start_time
              ELSE UNCHANGED << current_detections, detection_count,
                                detection_times, fps_start_time >>
           /\ Respond(c, data[c], Append(replies[c], DetectionReply(det)))
    /\ frame_lock' = Release(frame_lock)
    /\ should_process' = [should_process EXCEPT ![c] = FALSE]
    /\ frame' = [frame EXCEPT ![c] = None]
    /\ results' = [results EXCEPT ![c] = None]
    /\ start_time' = [start_time EXCEPT ![c] = 0]
    /\ UNCHANGED << model_loaded, tracking_enabled, frame_count,
                    confidence_vars, recognizer_vars, now,
                    endpoint, skip_vars >>

FramesKinds == {"ping", "refresh_detection", "update_confidence", "frame"}

\* The final else: logger.warning, and nothing is sent
FramesUnknown(c, m) ==
    /\ AtReceive(c, "frames")
    /\ m.wf = "object" /\ m.type \notin FramesKinds
    /\ Respond(c, m, << >>)
    /\ UNCHANGED << manager_vars, confidence_vars, recognizer_vars, now,
                    endpoint, skip_vars, frame_locals >>

(***************************************************************************)
(* Direct use of the recognizer object (gesture_recognizer).               *)
(***************************************************************************)
\* recognition describes a call on the templates as they are: a change of the
\* templates forgets it.
AddTemplate(template_id, name, trajectory) ==
    /\ templates' = AddTemplateTo(templates, template_id, name, trajectory)
    /\ recognition' = None
    /\ UNCHANGED << manager_vars, confidence_vars, now, running, conn_vars >>

RecognizeCall(trajectory, confidence_threshold) ==
    /\ recognition' = [kind |-> "call",
                       trajectory |-> trajectory,
                       confidence_threshold |-> confidence_threshold,
                       result |-> RecognizeGesture(templates, trajectory, confidence_threshold)]
    /\ UNCHANGED << manager_vars, confidence_vars, now, running, conn_vars, templates >>

(***************************************************************************)
(* Spec: the two endpoints, any connection on either.                      *)
(***************************************************************************)
Next ==
    \E c \in Conns :
        \/ \E ep \in {"ws", "frames"} : Accept(c, ep)
        \/ Disconnect(c)
        \/ \E m \in WsTexts : WsMalformed(c, m)
        \/ \E m \in WsTexts : WsPing(c, m)
        \/ \E m \in WsTexts : WsStartTracking(c, m)
        \/ \E m \in WsTexts : WsStopTracking(c, m)
        \/ WsStopClear(c)
        \/ \E m \in WsTexts : WsSaveTemplate(c, m)
        \/ \E m \in WsTexts : WsRecognizeGesture(c, m)
        \/ \E m \in WsTexts : WsUnknown(c, m)
        \/ \E m \in FramesTexts : FramesInvalidJson(c, m)
        \/ \E m \in FramesTexts : FramesNonObject(c, m)
        \/ \E m \in FramesTexts : FramesPing(c, m)
        \/ \E m \in FramesTexts : FramesRefreshDetection(c, m)
        \/ \E m \in FramesTexts : FramesUpdateConfidence(c, m)
        \/ \E m \in FramesTexts :
               /\ frame_count < MaxFrames
               /\ frame_skip_counter[c] < MaxSkip
               /\ FramesFrame(c, m)
        \/ FrameDecode(c)
        \/ PFGuard(c)
        \/ \E outcome \in InferOutcomes : \E d \in Latencies :
               /\ now + d <= MaxClock
               /\ PFInfer(c, outcome, d)
        \/ PFRecord(c)
        \/ \E m \in FramesTexts : FramesUnknown(c, m)

Spec == Init /\ [][Next]_vars

(***************************************************************************)
(* SpecPipe: one /ws/frames client that streams decodable frames, for the  *)
(* long runs the statistics of the pipeline need.                          *)
(***************************************************************************)
PipeConn == "c1"

PipeTexts == { Obj("frame", [payload |-> "image"]) }

PipeNext ==
    \/ Accept(PipeConn, "frames")
    \/ \E m \in PipeTexts :
           /\ frame_skip_counter[PipeConn] < PipeFrames
           /\ FramesFrame(PipeConn, m)
    \/ FrameDecode(PipeConn)
    \/ PFGuard(PipeConn)
    \/ \E outcome \in InferOutcomes : \E d \in Latencies :
           /\ now + d <= PipeClock
           /\ pc[PipeConn] = "pf_locked"
           /\ \/ frame_count - detection_count < PipeMisses
              \/ DetectionOf(outcome, current_hand_detection_confidence,
                             frame[PipeConn]) # None
           /\ PFInfer(PipeConn, outcome, d)
    \/ PFRecord(PipeConn)

SpecPipe == Init /\ [][PipeNext]_vars

(***************************************************************************)
(* SpecMatch: the recognizer object alone, templates added and gestures    *)
(* recognized in any order.                                                *)
(***************************************************************************)
TemplateIds == {"t1", "t2", "t3"}

TemplateTrajectories == {TrajDiag, TrajRevDiag, TrajL, TrajSame, TrajOne}

InputTrajectories == {TrajOne, TrajDiag, TrajL, TrajLDense}

Thresholds == {0, 600, FP}

MatchNext ==
    \/ \E id \in TemplateIds : \E t \in TemplateTrajectories :
           /\ \/ Len(templates) < MaxTemplates
              \/ \E i \in 1..Len(templates) : templates[i].id = id
           /\ AddTemplate(id, id, t)
    \/ \E t \in InputTrajectories : \E th \in Thresholds : RecognizeCall(t, th)

SpecMatch == Init /\ [][MatchNext]_vars

(***************************************************************************)
(* SpecRecog: clients that ask for recognitions on /ws while others change *)
(* the thresholds and stream frames on /ws/frames.                         *)
(***************************************************************************)
RecogWsTexts ==
    { Obj("save_template", None),
      Recognize(TrajOne, << >>, << >>),
      Recognize(TrajOne, << >>, << Tpl("diag", TrajDiag, "paste") >>),
      Recognize(TrajDiag, << >>, << >>),
      Recognize(TrajL, << >>, << Tpl("diag", TrajDiag, "paste") >>),
      Recognize(TrajL, << 600 >>, << Tpl("diag", TrajDiag, "paste") >>) }

RecogFramesTexts ==
    { Obj("update_confidence", [hand |-> << Num(600) >>, gesture |-> << >>]),
      Obj("update_confidence", [hand |-> << >>, gesture |-> << Num(600) >>]),
      Obj("update_confidence", [hand |-> << Num(800) >>, gesture |-> << Num(900) >>]),
      Obj("frame", [payload |-> "image"]) }

RecogNext ==
    \E c \in Conns :
        \/ \E ep \in {"ws", "frames"} : Accept(c, ep)
        \/ \E m \in RecogWsTexts : WsSaveTemplate(c, m)
        \/ \E m \in RecogWsTexts : WsRecognizeGesture(c, m)
        \/ \E m \in RecogFramesTexts : FramesUpdateConfidence(c, m)
        \/ \E m \in RecogFramesTexts :
               /\ frame_count < MaxFrames
               /\ frame_skip_counter[c] < MaxSkip
               /\ FramesFrame(c, m)
        \/ FrameDecode(c)
        \/ PFGuard(c)
        \/ \E outcome \in InferOutcomes : \E d \in Latencies :
               /\ now + d <= MaxClock
               /\ PFInfer(c, outcome, d)
        \/ PFRecord(c)

SpecRecog == Init /\ [][RecogNext]_vars

(***************************************************************************)
(* SpecReq: clients of /ws that ask for recognitions with template lists   *)
(* of every make: well-formed templates, templates of one point or of      *)
(* coincident points, and templates that share a name.                     *)
(***************************************************************************)
ReqTrajectories == {TrajDiag, TrajL, TrajLDense}

ReqTemplateLists ==
    { << Tpl("diag", TrajDiag, "paste"), Tpl("L", TrajL, "copy") >>,
      << Tpl("dot", TrajOne, "quit") >>,
      << Tpl("same", TrajSame, "undo") >>,
      << Tpl("L", TrajL, "copy"), Tpl("dot", TrajOne, "quit") >>,
      << Tpl("g", TrajDiag, "paste"), Tpl("g", TrajL, "copy") >>,
      << Tpl("g", TrajL, "copy"), Tpl("g", TrajDiag, "paste") >> }

ReqThresholds == { << >>, << 600 >> }

ReqTexts ==
    { Recognize(t, th, tpls) :
          t \in ReqTrajectories, th \in ReqThresholds, tpls \in ReqTemplateLists }

ReqNext ==
    \E c \in Conns :
        \/ Accept(c, "ws")
        \/ \E m \in ReqTexts : WsRecognizeGesture(c, m)

SpecReq == Init /\ [][ReqNext]_vars

(***************************************************************************)
(* SpecFn: the recognizer's functions called one at a time on inputs drawn *)
(* from bounded sets; recognition records the call and what it returned.   *)
(***************************************************************************)
\* The largest target_count tried
MaxTarget == 6

TrajFlat == << Pt(0, 2), Pt(4, 2), Pt(8, 2) >>

TrajZig == << Pt(0, 0), Pt(2, 3), Pt(4, 0), Pt(6, 3) >>

FnTrajectories ==
    {TrajOne, TrajDiag, TrajRevDiag, TrajL, TrajLDense, TrajSame, TrajFlat, TrajZig}

\* The trajectory scaled per axis by sx, sy and moved by (ox, oy)
Transform(trajectory, sx, sy, ox, oy) ==
    [i \in 1..Len(trajectory) |->
        << sx * trajectory[i][1] + ox * FP, sy * trajectory[i][2] + oy * FP >>]

Scales == {1, 2, 3}

Offsets == {0 - 3, 0, 7}

TransformsOf(trajectory) ==
    { Transform(trajectory, sx, sy, ox, oy) :
          sx \in Scales, sy \in Scales, ox \in Offsets, oy \in Offsets }

FnThresholds == {InitialGestureConfidence, 95 * 10}

\* normalize_trajectory(trajectory)
NormalizeCall(trajectory) ==
    /\ recognition' = [kind |-> "normalize", trajectory |-> trajectory,
                       result |-> NormalizeTrajectory(trajectory)]
    /\ UNCHANGED << manager_vars, confidence_vars, now, running, conn_vars, templates >>

\* resample_trajectory(trajectory, target_count)
ResampleCall(trajectory, target_count) ==
    /\ recognition' = [kind |-> "resample", trajectory |-> trajectory,
                       target_count |-> target_count,
                       result |-> ResampleTrajectory(trajectory, target_count)]
    /\ UNCHANGED << manager_vars, confidence_vars, now, running, conn_vars, templates >>

\* A recognizer given the one template (add_template) and asked to recognize
\* trajectory; the lists calculate_similarity compares are recorded with the
\* score and the result.
MatchCall(trajectory, template, confidence_threshold) ==
    /\ LET tpls == AddTemplateTo(<< >>, "t", "t", template)
           normalized_input == NormalizeTrajectory(trajectory)
           target_points == Min(50, Max(Len(normalized_input), Len(tpls[1].trajectory)))
       IN  recognition' =
               [kind |-> "match", trajectory |-> trajectory, template |-> template,
                confidence_threshold |-> confidence_threshold,
                target_points |-> target_points,
                resampled1 |-> ResampleTrajectory(normalized_input, target_points),
                resampled2 |-> ResampleTrajectory(tpls[1].trajectory, target_points),
                similarity |-> CalculateSimilarity(normalized_input, tpls[1].trajectory),
                result |-> RecognizeGesture(tpls, trajectory, confidence_threshold)]
    /\ UNCHANGED << manager_vars, confidence_vars, now, running, conn_vars, templates >>

\* The functions keep no state: one call in a behaviour shows all there is.
FnNext ==
    /\ recognition = None
    /\ \/ \E t \in FnTrajectories : NormalizeCall(t)
       \/ \E t \in FnTrajectories : \E k \in 1..MaxTarget : ResampleCall(t, k)
       \/ \E t \in FnTrajectories : \E u \in FnTrajectories \cup TransformsOf(t) :
              \E th \in FnThresholds : MatchCall(t, u, th)

SpecFn == Init /\ [][FnNext]_vars

(***************************************************************************)
(* Properties.                                                             *)
(***************************************************************************)
IsFrame(c) ==
    endpoint[c] = "frames" /\ data[c].wf = "object" /\ data[c].type = "frame"

InProcessFrame(c) == pc[c] \in {"pf_call", "pf_locked", "pf_results"}

InLockedSection(c) == pc[c] \in {"pf_locked", "pf_results"}

FrameDone(c, d) == pc[c] = "recv" /\ replies[c] = << FrameReceived, DetectionReply(d) >>

\* C1: on /ws/frames every frame message is answered by frame_received and
\* then by exactly one detection message, before the next text is read:
\* while the frame is handled only frame_received has been sent, when the
\* loop is back at receive_text the two messages have been sent in that order,
\* no frame ends the loop, a payload that is no decodable image yields
\* detection null and never reaches process_frame, and no new text is read
\* while a frame is being handled.
FrameAnswered ==
    /\ [](\A c \in Conns :
             IsFrame(c) =>
                 /\ pc[c] \in {"recv", "frame_ack", "pf_call", "pf_locked", "pf_results"}
                 /\ pc[c] # "recv" => replies[c] = << FrameReceived >>
                 /\ pc[c] = "recv" =>
                        /\ Len(replies[c]) = 2
                        /\ replies[c][1] = FrameReceived
                        /\ replies[c][2] = DetectionReply(replies[c][2].detection)
                 /\ InProcessFrame(c) => data[c].arg.payload = "image"
                 /\ (pc[c] = "recv" /\ data[c].arg.payload # "image") =>
                        replies[c][2] = DetectionReply(None))
    /\ [][\A c \in Conns :
             (IsFrame(c) /\ pc[c] # "recv") =>
                 \/ data'[c] = data[c] /\ Len(replies'[c]) >= Len(replies[c])
                 \/ pc'[c] = "disconnected"]_vars

\* C1 witness: a frame with an undecodable payload has been answered by
\* frame_received and detection null, on a connection that would process it.
FrameAnsweredWitness ==
    \E c \in Conns :
        /\ IsFrame(c)
        /\ data[c].arg.payload = "undecodable"
        /\ tracking_enabled
        /\ process_every_nth_frame[c] = InitialNth
        /\ FrameDone(c, None)

\* C2: a frame submitted while tracking is disabled, the model is not loaded
\* or the image is absent yields no detection and leaves the pipeline's
\* state (flag, counters, window, window start, current detection) as it was,
\* in the handler (line 627) and in process_frame (line 263).
DisabledFrameNoEffect ==
    [][\A c \in Conns :
          /\ ( /\ IsFrame(c)
               /\ pc[c] = "frame_ack"
               /\ pc'[c] \notin {"frame_ack", "disconnected"}
               /\ (~tracking_enabled \/ data[c].arg.payload # "image") )
             => (UNCHANGED pipeline_vars /\ FrameDone(c, None)')
          /\ ( /\ pc[c] = "pf_call"
               /\ pc'[c] # "pf_call"
               /\ (~tracking_enabled \/ ~model_loaded \/ frame[c] = None) )
             => (UNCHANGED pipeline_vars /\ FrameDone(c, None)')
      ]_vars

\* C2 witness: with the model loaded and the connection processing every
\* frame, a decodable frame got detection null and nothing was counted:
\* tracking was disabled when it was submitted.
DisabledFrameWitness ==
    \E c \in Conns :
        /\ IsFrame(c)
        /\ data[c].arg.payload = "image"
        /\ process_every_nth_frame[c] = InitialNth
        /\ model_loaded
        /\ ~tracking_enabled
        /\ frame_count = 0
        /\ FrameDone(c, None)

\* C3: when model.infer raises, process_frame ends with no detection, the
\* detection counter, the window, its start and the current detection are
\* untouched, the lock is released and the locals are gone, so that nothing
\* of the failure is left for the next frame.
InferFailureContained ==
    [][\A c \in Conns :
          (pc[c] = "pf_results" /\ results[c] = Raised /\ pc'[c] # "pf_results")
          => /\ FrameDone(c, None)'
             /\ UNCHANGED << tracking_enabled, frame_count, detection_count,
                             fps_start_time, detection_times, current_detections >>
             /\ frame_lock' = LockFree
             /\ running' = NoTask
             /\ results'[c] = None /\ frame'[c] = None
      ]_vars

\* C3 witness: an inference has raised inside process_frame.
InferFailureWitness ==
    \E c \in Conns : pc[c] = "pf_results" /\ results[c] = Raised /\ frame_count > 0

\* C4: at most one execution of process_frame is inside the section guarded
\* by frame_lock, and the lock is free whenever every coroutine is suspended.
OneDetectionAtATime ==
    /\ Cardinality({c \in Conns : InLockedSection(c)}) <= 1
    /\ frame_lock.count <= 1
    /\ running = NoTask => frame_lock = LockFree

\* C4 witness: one connection is inside the guarded section while another
\* has a decodable frame waiting to be processed.
OneDetectionWitness ==
    \E c \in Conns : \E o \in Conns \ {c} :
        /\ InLockedSection(c)
        /\ IsFrame(o) /\ pc[o] = "frame_ack" /\ data[o].arg.payload = "image"
        /\ should_process[o]

\* C5 as stated: every change of the pipeline's state is made while the
\* lock is held by the writer's thread.
WritesUnderLock ==
    [][pipeline_vars' # pipeline_vars => HeldBy(frame_lock, "MainThread")]_vars

IsErrorAck(r) ==
    \/ "type" \in DOMAIN r /\ r.type = "error"
    \/ "status" \in DOMAIN r /\ r.status = "error"

\* C6 as stated: a malformed text is answered by an error acknowledgment and
\* the loop goes on; no error ends a connection's loop.
MalformedAcknowledged ==
    \A c \in Conns :
        /\ pc[c] # "error_exit"
        /\ (data[c].wf \in {"invalid", "nonobject"} /\ pc[c] = "recv")
           => (Len(replies[c]) = 1 /\ IsErrorAck(replies[c][1]))

\* C7 as stated: a well-formed message of a kind the endpoint does not
\* handle is answered by an error acknowledgment naming the kind, and no
\* message is left without a response.
UnknownKindAcknowledged ==
    \A c \in Conns :
        (data[c].wf = "object" /\ pc[c] = "recv")
        => /\ replies[c] # << >>
           /\ (endpoint[c] = "ws" /\ MessageType(data[c]) \notin WsKinds)
              => replies[c] = << UnknownMessageType(MessageType(data[c])) >>
           /\ (endpoint[c] = "frames" /\ data[c].type \notin FramesKinds)
              => replies[c] = << UnknownMessageType(data[c].type) >>

\* C8: the latency window never holds more than WindowCap entries, and an
\* append to a full window drops the oldest entry and keeps the others in
\* order (unless the periodic summary clears the window).
WindowBounded ==
    /\ [](Len(detection_times) <= WindowCap)
    /\ [][(detection_count' = detection_count + 1 /\ Len(detection_times) = WindowCap)
          => \/ detection_times' = << >>
             \/ /\ Len(detection_times') = WindowCap
                /\ \A i \in 1..(WindowCap - 1) :
                       detection_times'[i] = detection_times[i + 1]
                /\ detection_times'[WindowCap] = now - start_time[PipeConn]
      ]_vars

\* C8 witness: the window is full, entries have been evicted, and the
\* entries differ, so that the order is visible.
WindowBoundedWitness ==
    /\ Len(detection_times) = WindowCap
    /\ detection_count = WindowCap + 2
    /\ detection_times[WindowCap - 1] = 1
    /\ detection_times[1] = 0

\* The similarity of the recorded call's input to template i
CallSimilarity(i) ==
    CalculateSimilarity(NormalizeTrajectory(recognition.trajectory),
                        templates[i].trajectory)

\* A recorded call of recognize_gesture that passes the early returns of
\* lines 109-118 and whose similarities are all computed (no template makes
\* calculate_similarity raise).
CallMade ==
    /\ recognition # None
    /\ Len(recognition.trajectory) >= 2
    /\ templates # << >>
    /\ \A i \in 1..Len(templates) : CallSimilarity(i) # SimRaised

\* C9 as stated: recognize_gesture returns a match exactly when some
\* template's similarity meets the threshold, the match is a template of
\* maximum similarity and reports that similarity; otherwise no match.
MatchIffThresholdMet ==
    CallMade =>
        LET r == recognition.result
            th == recognition.confidence_threshold
            T == 1..Len(templates)
        IN  /\ r.kind \in {"match", "none"}
            /\ (r.kind = "match") <=> (\E i \in T : CallSimilarity(i) >= th)
            /\ r.kind = "match" =>
                   \E i \in T :
                       /\ templates[i].id = r.template_id
                       /\ templates[i].name = r.name
                       /\ r.similarity = CallSimilarity(i)
                       /\ r.confidence = CallSimilarity(i)
                       /\ \A j \in T : CallSimilarity(j) <= CallSimilarity(i)

\* C10 as stated: of two templates the one whose similarity strictly exceeds
\* the other's (and meets the threshold) is returned wherever it stands in
\* the collection, and of two templates with the same best similarity the
\* first in collection order is returned.
BestTemplateReturned ==
    (CallMade /\ Len(templates) = 2) =>
        LET r == recognition.result
            th == recognition.confidence_threshold
        IN  /\ \A a \in 1..2 :
                   (CallSimilarity(a) >= th /\ CallSimilarity(3 - a) < CallSimilarity(a))
                   => (r.kind = "match" /\ r.template_id = templates[a].id)
            /\ (CallSimilarity(1) = CallSimilarity(2) /\ CallSimilarity(1) >= th)
               => (r.kind = "match" /\ r.template_id = templates[1].id)

\* C15 as stated: for a trajectory of at least 2 points and a target count
\* K >= 2, resample_trajectory returns exactly K points, the first and the
\* last being the trajectory's; and the two lists calculate_similarity
\* compares have the same length, the target count.
ResampleExactCount ==
    /\ (recognition.kind = "resample"
        /\ Len(recognition.trajectory) >= 2 /\ recognition.target_count >= 2)
       => /\ Len(recognition.result) = recognition.target_count
          /\ recognition.result[1] = recognition.trajectory[1]
          /\ recognition.result[Len(recognition.result)] =
                 recognition.trajectory[Len(recognition.trajectory)]
    /\ (recognition.kind = "match"
        /\ Len(recognition.trajectory) >= 2 /\ Len(recognition.template) >= 2)
       => /\ Len(recognition.resampled1) = recognition.target_points
          /\ Len(recognition.resampled2) = recognition.target_points

\* C16: normalize_trajectory keeps the length; on an axis whose coordinates
\* differ the result spans exactly [0, 1] (the least coordinate goes to 0, the
\* greatest to 1, all others in between); on an axis whose coordinates are
\* all the same the divisor is 1 and every result is coordinate - min = 0; a
\* trajectory of fewer than 2 points is returned as it is.
NormalizeBox ==
    recognition.kind = "normalize" =>
        LET t == recognition.trajectory
            r == recognition.result
        IN  IF Len(t) < 2 THEN r = t
            ELSE /\ Len(r) = Len(t)
                 /\ \A k \in 1..2 :
                        LET lo == SeqMin(t, k)
                            hi == SeqMax(t, k)
                        IN  IF lo < hi
                            THEN /\ SeqMin(r, k) = 0 /\ SeqMax(r, k) = FP
                                 /\ \A i \in 1..Len(t) :
                                        /\ t[i][k] = lo => r[i][k] = 0
                                        /\ t[i][k] = hi => r[i][k] = FP
                            ELSE \A i \in 1..Len(t) :
                                     r[i][k] = t[i][k] - lo /\ r[i][k] = 0

\* C16 witness: a trajectory with one axis of differing and one of equal
\* coordinates has been normalized.
NormalizeBoxWitness ==
    /\ recognition.kind = "normalize"
    /\ recognition.trajectory = TrajFlat
    /\ recognition.result = << << 0, 0 >>, << FP \div 2, 0 >>, << FP, 0 >> >>

IsTransformOf(template, trajectory) == template \in TransformsOf(trajectory)

\* C17: a trajectory of at least 2 points matched against the template built
\* from the same trajectory, or from it scaled by positive factors per axis
\* and translated, scores at least 0.95, and is recognized at every threshold
\* up to 0.95.
TransformedMatches ==
    (recognition.kind = "match"
     /\ Len(recognition.trajectory) >= 2
     /\ IsTransformOf(recognition.template, recognition.trajectory))
    => /\ recognition.similarity >= 95 * 10
       /\ recognition.confidence_threshold <= 95 * 10
          => /\ recognition.result.kind = "match"
             /\ recognition.result.similarity = recognition.similarity

\* C17 witness: a zigzag matched against itself scaled by (2, 3) and moved by
\* (-3, 7), at the threshold 0.95.
TransformedMatchesWitness ==
    /\ recognition.kind = "match"
    /\ recognition.trajectory = TrajZig
    /\ recognition.template = Transform(TrajZig, 2, 3, 0 - 3, 7)
    /\ recognition.template # TrajZig
    /\ recognition.confidence_threshold = 95 * 10
    /\ recognition.result.kind = "match"

\* C18: the L of 3 points as the only template and the L of 5 points as the
\* input: the template is resampled to 5 points at equal distances along the
\* path, the similarity is above 0.9 and the template is returned at the
\* default gesture threshold.
DenseLRecognized ==
    (recognition.kind = "match"
     /\ recognition.trajectory = TrajLDense /\ recognition.template = TrajL)
    => /\ recognition.target_points = 5
       /\ recognition.resampled2 =
              << << 0, 0 >>, << FP \div 2, 0 >>, << FP, 0 >>,
                 << FP, FP \div 2 >>, << FP, FP >> >>
       /\ recognition.similarity > 9 * 100
       /\ recognition.confidence_threshold = InitialGestureConfidence
          => /\ recognition.result.kind = "match"
             /\ recognition.result.template_id = "t"
             /\ recognition.result.similarity = recognition.similarity

\* C18 witness: that call has been made at the default threshold.
DenseLRecognizedWitness ==
    /\ recognition.kind = "match"
    /\ recognition.trajectory = TrajLDense /\ recognition.template = TrajL
    /\ recognition.confidence_threshold = InitialGestureConfidence
    /\ recognition.result.kind = "match"

\* c is back at receive_text on /ws after a recognize_gesture request
RecognizeAnswered(c) ==
    /\ endpoint[c] = "ws" /\ pc[c] = "recv"
    /\ data[c].wf = "object" /\ MessageType(data[c]) = "recognize_gesture"

\* c has handled a text in this step: only its own handler changes data[c]
\* and replies[c].
Handled(c, ep) ==
    /\ endpoint[c] = ep /\ pc[c] = "recv" /\ pc'[c] = "recv"
    /\ (data'[c] # data[c] \/ replies'[c] # replies[c])
    /\ data'[c].wf = "object"

\* c is at receive_text before and after the step and the text it handled
\* last is an object (a handler that sends what it sent before, to the same
\* text, changes neither data[c] nor replies[c]).
LastText(c, ep) ==
    /\ endpoint[c] = ep /\ pc[c] = "recv" /\ pc'[c] = "recv"
    /\ data'[c].wf = "object"

ServerState == << manager_vars, confidence_vars, recognizer_vars >>

\* C11: a recognize_gesture request with fewer than 2 points gets
\* gesture_not_recognized with the message on the minimum of 2 points,
\* whatever its templates are (none are looked at); one with 2 points or more
\* and no templates gets gesture_not_recognized with the message on the
\* missing templates; neither gets an error.
ShortOrEmptyNotRecognized ==
    \A c \in Conns :
        RecognizeAnswered(c) =>
            /\ Len(data[c].arg.trajectory) < 2
               => replies[c] = << NotRecognized("Trajectory must have at least 2 points") >>
            /\ (Len(data[c].arg.trajectory) >= 2 /\ data[c].arg.templates = << >>)
               => replies[c] = << NotRecognized("No templates provided for recognition") >>

\* C11 witness: a request of one point and no templates, and a request of one
\* point with a template, have both been answered.
ShortOrEmptyWitness ==
    \E c \in Conns : \E o \in Conns :
        /\ RecognizeAnswered(c) /\ RecognizeAnswered(o)
        /\ data[c].arg.trajectory = TrajOne /\ data[c].arg.templates = << >>
        /\ data[o].arg.trajectory = TrajOne /\ data[o].arg.templates # << >>
        /\ replies[o] = << NotRecognized("Trajectory must have at least 2 points") >>

\* C13: a threshold changes only to the value that the update_confidence
\* message last handled on some connection names for it; a handled update leaves the threshold it does
\* not name as it was and reports both current values; a processed frame is
\* judged by the hand threshold current at that time, and a recognition by
\* the request's own threshold or else by the gesture threshold current at
\* that time.
ThresholdsLastWriteWins ==
    [][/\ current_hand_detection_confidence' # current_hand_detection_confidence
          => \E c \in Conns :
                 /\ LastText(c, "frames") /\ data'[c].type = "update_confidence"
                 /\ data'[c].arg.hand = << Num(current_hand_detection_confidence') >>
       /\ current_gesture_recognition_confidence' # current_gesture_recognition_confidence
          => \E c \in Conns :
                 /\ LastText(c, "frames") /\ data'[c].type = "update_confidence"
                 /\ data'[c].arg.gesture = << Num(current_gesture_recognition_confidence') >>
       /\ \A c \in Conns :
              /\ (Handled(c, "frames") /\ data'[c].type = "update_confidence")
                 => /\ current_hand_detection_confidence' =
                           IF data'[c].arg.hand = << >>
                           THEN current_hand_detection_confidence
                           ELSE data'[c].arg.hand[1].val
                    /\ current_gesture_recognition_confidence' =
                           IF data'[c].arg.gesture = << >>
                           THEN current_gesture_recognition_confidence
                           ELSE data'[c].arg.gesture[1].val
                    /\ replies'[c] =
                           << ConfidenceUpdated(current_hand_detection_confidence',
                                                current_gesture_recognition_confidence') >>
              /\ (pc[c] = "pf_results" /\ pc'[c] = "recv"
                  /\ results[c] # Raised /\ results[c].list # << >>)
                 => LET predictions == results[c].list[1].predictions
                    IN  (replies'[c][2].detection # None)
                        <=> \E i \in 1..Len(predictions) :
                                predictions[i].confidence > current_hand_detection_confidence
              /\ (Handled(c, "ws") /\ MessageType(data'[c]) = "recognize_gesture"
                  /\ Len(data'[c].arg.trajectory) >= 2 /\ data'[c].arg.templates # << >>)
                 => LET arg == data'[c].arg
                        th == IF arg.confidence_threshold = << >>
                              THEN current_gesture_recognition_confidence
                              ELSE arg.confidence_threshold[1]
                    IN  (replies'[c][1].type = "gesture_recognized")
                        <=> (RecognizeGesture(LoadTemplates(arg.templates, 1, << >>),
                                              arg.trajectory, th).kind = "match")
      ]_vars

\* C13 witness: after both thresholds were lowered to 0.6, a frame whose best
\* prediction has confidence 0.75 gave a detection on one connection and an
\* L was recognized as the diagonal (similarity 0.833) on another, by a
\* request without a threshold of its own.
ThresholdsWitness ==
    /\ current_hand_detection_confidence = 600
    /\ current_gesture_recognition_confidence = 600
    /\ \E c \in Conns : \E o \in Conns :
           /\ IsFrame(c) /\ pc[c] = "recv"
           /\ replies[c][2].detection # None
           /\ replies[c][2].detection.confidence = PredEq.confidence
           /\ RecognizeAnswered(o)
           /\ data[o].arg.confidence_threshold = << >>
           /\ replies[o][1].type = "gesture_recognized"

\* C14: save_template is acknowledged and changes nothing on the server; a
\* recognize_gesture request changes nothing on the server either, and its
\* reply is determined by its trajectory, its templates and the threshold in
\* force.
RecognizerStateless ==
    [][\A c \in Conns :
          /\ (Handled(c, "ws") /\ MessageType(data'[c]) = "save_template")
             => (replies'[c] = << SaveTemplateInfo >> /\ UNCHANGED ServerState)
          /\ (Handled(c, "ws") /\ MessageType(data'[c]) = "recognize_gesture")
             => /\ UNCHANGED ServerState
                /\ replies'[c] =
                       << RecognizeReply(data'[c].arg,
                                         current_gesture_recognition_confidence) >>
      ]_vars

\* C14 witness: the same trajectory and templates, asked once with the
\* threshold 0.6 (recognized) and once without (not recognized at 0.85), and
\* a save_template in between or before, leave no trace in each other's
\* answers.
RecognizerStatelessWitness ==
    \E c \in Conns : \E o \in Conns :
        /\ RecognizeAnswered(c) /\ RecognizeAnswered(o)
        /\ data[c].arg.trajectory = TrajL /\ data[o].arg.trajectory = TrajL
        /\ data[c].arg.confidence_threshold = << 600 >>
        /\ data[o].arg.confidence_threshold = << >>
        /\ replies[c][1].type = "gesture_recognized"
        /\ replies[o] = << NotRecognized("No matching gesture found") >>
        /\ templates = << >>

\* C12: while tracking is disabled the current detection is none, in every
\* state in which a handler other than stop_tracking itself can run or be
\* suspended: the only states with the flag false and a detection stored are
\* those inside the stop_tracking handler, between its two assignments, where
\* it holds the event loop.
NoDetectionWhileDisabled ==
    (~tracking_enabled /\ current_detections # << >>)
    => \E c \in Conns : pc[c] = "stop_locked" /\ running = c

\* C12 witness: a detection was stored, tracking was stopped, and the
\* current detection is none.
NoDetectionWhileDisabledWitness ==
    /\ ~tracking_enabled
    /\ running = NoTask
    /\ detection_count > 0
    /\ current_detections = << >>

\* The step in which process_frame, called for c, handles what model.infer
\* gave and returns
ProcessFrameReturns(c) == pc[c] = "pf_results" /\ pc'[c] = "recv"

\* C19 as stated: after process_frame has run inference on a frame (and
\* model.infer returned) the current detection is that frame's outcome, the
\* detection returned or none.
CurrentDetectionIsLatest ==
    [][\A c \in Conns :
          (ProcessFrameReturns(c) /\ results[c] # Raised) =>
              LET det == replies'[c][2].detection
              IN  current_detections' = IF det = None THEN << >> ELSE << det >>
      ]_vars

\* C20: process_frame returns a detection exactly when model.infer returned,
\* the first result has predictions and the greatest confidence among them
\* is strictly above the threshold; the detection is built from a prediction
\* of that greatest confidence and is stored as the only element of the
\* current detections; otherwise they are left as they were.  The list never
\* holds more than one element.
DetectionIffBestExceeds ==
    /\ [](Len(current_detections) <= 1)
    /\ [][\A c \in Conns :
             ProcessFrameReturns(c) =>
                 LET r == results[c]
                     det == replies'[c][2].detection
                     has == r # Raised /\ r.list # << >> /\ r.list[1].predictions # << >>
                     IsBest(p) ==
                         /\ \A j \in 1..Len(r.list[1].predictions) :
                                r.list[1].predictions[j].confidence <= p.confidence
                         /\ p.confidence > current_hand_detection_confidence
                     ok == has /\ \E i \in 1..Len(r.list[1].predictions) :
                                      IsBest(r.list[1].predictions[i])
                 IN  /\ (det # None) <=> ok
                     /\ ok => /\ \E i \in 1..Len(r.list[1].predictions) :
                                     LET p == r.list[1].predictions[i]
                                     IN  /\ IsBest(p)
                                         /\ det.confidence = p.confidence
                                         /\ det.x = (p.x * frame[c].width) \div DetectionFrameSize
                                         /\ det.y = (p.y * frame[c].height) \div DetectionFrameSize
                              /\ current_detections' = << det >>
                     /\ ~ok => UNCHANGED current_detections
       ]_vars

\* C20 witness: the inference returned one prediction whose confidence is
\* the threshold itself.
DetectionIffBestExceedsWitness ==
    \E c \in Conns :
        /\ pc[c] = "pf_results"
        /\ results[c] = Results(<< PredEq >>)
        /\ current_hand_detection_confidence = PredEq.confidence

\* C21 as stated: a recognize_gesture request of 2 points or more with a
\* non-empty template list is answered with gesture_recognized or
\* gesture_not_recognized, whatever the templates' trajectories are.
DegenerateTemplateNoError ==
    \A c \in Conns :
        (RecognizeAnswered(c) /\ Len(data[c].arg.trajectory) >= 2
                              /\ data[c].arg.templates # << >>)
        => /\ Len(replies[c]) = 1
           /\ replies[c][1].type \in {"gesture_recognized", "gesture_not_recognized"}

\* C25 as stated: in a gesture_recognized reply the command is the command
\* of the template that won the match, the one whose name and similarity the
\* reply reports (the i-th template of the request is held under the id
\* temp_<i-1>_<name>).
CommandOfWinner ==
    \A c \in Conns :
        (RecognizeAnswered(c) /\ Len(replies[c]) = 1
                              /\ replies[c][1].type = "gesture_recognized")
        => LET arg == data[c].arg
               th == IF arg.confidence_threshold = << >>
                     THEN current_gesture_recognition_confidence
                     ELSE arg.confidence_threshold[1]
               won == RecognizeGesture(LoadTemplates(arg.templates, 1, << >>),
                                       arg.trajectory, th)
           IN  /\ won.kind = "match"
               /\ replies[c][1].template_name = won.name
               /\ replies[c][1].similarity = won.similarity
               /\ replies[c][1].command = arg.templates[won.template_id[2] + 1].command

\* The step in which the frame branch counts the message and sends frame_received
FrameCounted(c) == endpoint[c] = "frames" /\ pc[c] = "recv" /\ pc'[c] = "frame_ack"

\* The step after the acknowledgment: the test of line 627 and the decoding
FrameTested(c) == pc[c] = "frame_ack" /\ pc'[c] \in {"recv", "pf_call"}

\* C22 as stated: every frame message advances the connection's counter by
\* one, and with the initial setting process_frame is called only for the
\* frames whose count is a multiple of 3.
EveryThirdFrame ==
    [][\A c \in Conns :
          /\ FrameCounted(c) => frame_skip_counter'[c] = frame_skip_counter[c] + 1
          /\ (FrameTested(c) /\ process_every_nth_frame[c] = InitialNth
                             /\ pc'[c] = "pf_call")
             => frame_skip_counter[c] % CommentedStride = 0
      ]_vars

\* C23 as stated: once a refresh_detection with force_process has set the
\* divisor of a connection to 0.2, a decodable frame received while tracking
\* is enabled is handed to process_frame whenever the initial divisor would
\* have handed it over; a refresh_detection changes the divisor of no other
\* connection.
ForcedRefreshTightens ==
    [][\A c \in Conns :
          /\ (FrameTested(c) /\ process_every_nth_frame[c] = ForcedNth
                             /\ tracking_enabled
                             /\ data[c].arg.payload = "image"
                             /\ ShouldProcess(frame_skip_counter[c], InitialNth))
             => pc'[c] = "pf_call"
          /\ (Handled(c, "frames") /\ data'[c].type = "refresh_detection")
             => \A o \in Conns \ {c} :
                    process_every_nth_frame'[o] = process_every_nth_frame[o]
      ]_vars

\* The window is as long as the detections counted since the last multiple
\* of 60, up to its capacity
InStep(count, window) == Len(window) = Min(WindowCap, count % SummaryEvery)

\* C24: the window is in step with the detection counter up to the first
\* summary; a step that leaves it in step when the elapsed time is positive
\* at every summary due; the window is emptied, and its time origin moved,
\* only by the detection that brings the counter to a multiple of 60, and
\* that detection does both when the elapsed time is positive; a frame
\* without a detection changes neither.
WindowInStep ==
    /\ [](detection_count < SummaryEvery => InStep(detection_count, detection_times))
    /\ [][ /\ (/\ InStep(detection_count, detection_times)
               /\ ((detection_count' # detection_count
                      /\ detection_count' % SummaryEvery = 0)
                   => now > fps_start_time))
              => InStep(detection_count', detection_times')
           /\ ((detection_times' = << >> /\ detection_times # << >>)
                  \/ fps_start_time' # fps_start_time)
              => /\ detection_count' = detection_count + 1
                 /\ detection_count' % SummaryEvery = 0
                 /\ detection_times' = << >>
                 /\ fps_start_time' = now
           /\ (detection_count' # detection_count
                  /\ detection_count' % SummaryEvery = 0 /\ now > fps_start_time)
              => (detection_times' = << >> /\ fps_start_time' = now)
           /\ \A c \in Conns :
                  (ProcessFrameReturns(c) /\ replies'[c][2].detection = None)
                  => UNCHANGED << detection_times, fps_start_time, detection_count >>
       ]_vars

\* C24 witness: the 61st detection, after a summary that emptied the window.
WindowInStepWitness ==
    /\ detection_count = SummaryEvery + 1
    /\ fps_start_time > 0
    /\ Len(detection_times) = 1
    /\ frame_count > detection_count

\* C26: the detection counter never exceeds the frame counter; neither ever
\* decreases; the frame counter changes only in a process_frame call that
\* has passed the guard, which adds exactly one, and the detection counter
\* only when that call handles its results, by one; nothing else (a
\* stop_tracking, start_tracking or refresh_detection message, the end of a
\* connection) changes either.
CountersMonotone ==
    /\ [](detection_count <= frame_count)
    /\ [][ /\ frame_count' >= frame_count
           /\ detection_count' >= detection_count
           /\ \A c \in Conns :
                  (pc[c] = "pf_locked" /\ pc'[c] = "pf_results")
                  => (frame_count' = frame_count + 1 /\ UNCHANGED detection_count)
           /\ \A c \in Conns :
                  ProcessFrameReturns(c)
                  => /\ UNCHANGED frame_count
                     /\ detection_count' =
                            IF replies'[c][2].detection # None
                            THEN detection_count + 1 ELSE detection_count
           /\ (\A c \in Conns : ~(pc[c] = "pf_locked" /\ pc'[c] = "pf_results")
                                 /\ ~ProcessFrameReturns(c))
              => UNCHANGED << frame_count, detection_count >>
       ]_vars

\* C26 witness: a frame was processed and gave a detection, and tracking
\* was stopped afterwards.
CountersMonotoneWitness ==
    /\ frame_count = 1
    /\ detection_count = 1
    /\ ~tracking_enabled
    /\ running = NoTask

====
